---- MODULE Spec2Model ----
(***************************************************************************)
(* Club Elo dashboard (src/main_app.py): the cached CSV loader load_data,  *)
(* and the script body that derives the club selector, the time series     *)
(* (subset_data) and the latest snapshot (latest_ratings) on every run.    *)
(*                                                                         *)
(* A script run is one action: Streamlit runs the whole script top to      *)
(* bottom for a new session and again after every widget change.           *)
(***************************************************************************)
EXTENDS Integers, Sequences, FiniteSets, TLC

\* ------------------------------------------------------------------------
\* Bounds of the model
\* ------------------------------------------------------------------------
\* longest input file (rows) of the derivation specification Spec
MaxRows == 3
\* longest input file (rows) of the reload specification SpecReload
MaxReloadRows == 2

\* ------------------------------------------------------------------------
\* Input universe: the text of the CSV fields
\* ------------------------------------------------------------------------
Clubs == {"Man City", "Bayern", "Mainz"}
Countries == {"GER", "USA"}
\* two calendar dates, an empty field, and text that is no date
DateTexts == {"2020-01-01", "2021-01-01", "", "notadate"}
Elos == {1900}

\* the rows a file is made of: every club at both dates in a kept league, one
\* row of a league that is filtered out, one with an empty date field and one
\* whose date is no date
Rows == {r \in [club : Clubs, country : Countries, date : DateTexts, elo : Elos] :
            /\ r.country = "USA" => r.club = "Man City" /\ r.date = "2020-01-01"
            /\ r.date = "" => r.club = "Bayern"
            /\ r.date = "notadate" => r.club = "Mainz"}

SeqsUpTo(S, n) == UNION {[1..k -> S] : k \in 0..n}

\* the file at the path is missing, or has these rows
Missing == [exists |-> FALSE, rows |-> <<>>]
FileOf(rows) == [exists |-> TRUE, rows |-> rows]

Files == {Missing} \cup {FileOf(r) : r \in SeqsUpTo(Rows, MaxRows)}

\* the reload specification writes files of two clubs' rows of one date, good or bad
ReloadRows == {r \in Rows : r.club # "Man City" /\ r.date \in {"2021-01-01", "notadate"}}
ReloadFiles == {Missing} \cup {FileOf(r) : r \in SeqsUpTo(ReloadRows, MaxReloadRows)}

\* ------------------------------------------------------------------------
\* Values
\* ------------------------------------------------------------------------
\* a DataFrame, Python's None, or a name not bound in this run
DF(rows) == [kind |-> "df", rows |-> rows]
NoneVal == [kind |-> "None", rows |-> <<>>]
Absent == [kind |-> "absent", rows |-> <<>>]

\* pandas' missing timestamp; every real date has a positive ordinal
NaT == 0

\* proleptic Gregorian ordinal of the date texts pd.to_datetime accepts
DateOrdinal == [t \in {"2020-01-01", "2021-01-01"} |->
                  IF t = "2020-01-01" THEN 737425 ELSE 737791]

\* code points of the club names, for Python's str ordering
CodePoints == [c \in Clubs |->
    CASE c = "Bayern"   -> <<66, 97, 121, 101, 114, 110>>
      [] c = "Mainz"    -> <<77, 97, 105, 110, 122>>
      [] c = "Man City" -> <<77, 97, 110, 32, 67, 105, 116, 121>>]

\* ------------------------------------------------------------------------
\* load_data
\* ------------------------------------------------------------------------
top_leagues == {"GER", "ESP", "ENG", "FRA", "ITA"}

\* pd.read_csv: one DataFrame row per file row, labelled 0, 1, ... (RangeIndex)
read_csv(f) ==
    [i \in 1..Len(f.rows) |->
        [idx |-> i - 1, club |-> f.rows[i].club, country |-> f.rows[i].country,
         date |-> f.rows[i].date, elo |-> f.rows[i].elo]]

\* pd.to_datetime on one field: a date, NaT for an empty field; any other
\* text makes the whole conversion raise ValueError
Parses(text) == text = "" \/ text \in DOMAIN DateOrdinal
to_datetime(text) == IF text = "" THEN NaT ELSE DateOrdinal[text]

\* df['date'] = pd.to_datetime(df['date'])
convert_dates(rows) ==
    [i \in 1..Len(rows) |-> [rows[i] EXCEPT !.date = to_datetime(rows[i].date)]]

\* df[mask]: the rows whose mask is true, in the order of df, labels kept
RECURSIVE BoolIndex(_, _)
BoolIndex(rows, mask) ==
    IF rows = <<>> THEN <<>>
    ELSE IF mask[1] THEN <<Head(rows)>> \o BoolIndex(Tail(rows), Tail(mask))
         ELSE BoolIndex(Tail(rows), Tail(mask))

country_mask_all(row) == TRUE
\* df['country'].isin(top_leagues), one row
country_mask(row) == row.country \in top_leagues

\* the body of load_data: what it returns, or the exception that leaves it
\*   FileNotFoundError is caught: st.error, return None
\*   ValueError (pd.to_datetime) is not caught by the except clause
load_data_body(f) ==
    IF ~f.exists
      THEN [raised |-> "none", error |-> TRUE, value |-> NoneVal]
    ELSE IF \E i \in 1..Len(f.rows) : ~Parses(f.rows[i].date)
      THEN [raised |-> "ValueError", error |-> FALSE, value |-> Absent]
    ELSE LET df == convert_dates(read_csv(f))
             mask == [i \in 1..Len(df) |-> country_mask(df[i])]
         IN [raised |-> "none", error |-> FALSE, value |-> DF(BoolIndex(df, mask))]

\* st.cache_data: one entry per argument value; the script passes one path,
\* so the store is one slot. A stored call is replayed with the st.error it made.
EmptyCache == [filled |-> FALSE, error |-> FALSE, value |-> Absent]

cache_lookup_never(c) == FALSE
\* the call is answered from the store
cache_lookup(c) == c.filled

cache_store_frames(c, r) ==
    IF r.raised = "none" /\ r.value.kind = "df"
    THEN [filled |-> TRUE, error |-> r.error, value |-> r.value] ELSE c
\* a call that returns is stored, whatever it returns; one that raises is not
cache_store(c, r) ==
    IF r.raised = "none"
    THEN [filled |-> TRUE, error |-> r.error, value |-> r.value] ELSE c

\* load_data(filepath) as the script calls it: the result and the store after
load_data(c, f) ==
    IF cache_lookup(c)
    THEN [raised |-> "none", error |-> c.error, value |-> c.value, cache |-> c]
    ELSE LET r == load_data_body(f)
         IN [raised |-> r.raised, error |-> r.error, value |-> r.value,
             cache |-> cache_store(c, r)]

\* ------------------------------------------------------------------------
\* The selector
\* ------------------------------------------------------------------------
default_clubs == <<"Man City", "Real Madrid", "Bayern", "PSG", "Inter">>

\* Python's < on str: code point by code point, a proper prefix is smaller
RECURSIVE LexLess(_, _)
LexLess(a, b) ==
    IF b = <<>> THEN FALSE
    ELSE IF a = <<>> THEN TRUE
    ELSE IF Head(a) # Head(b) THEN Head(a) < Head(b)
    ELSE LexLess(Tail(a), Tail(b))

StrLess(x, y) == LexLess(CodePoints[x], CodePoints[y])

\* elo_data['club'].unique(): the clubs that occur
unique_clubs(rows) == {rows[i].club : i \in 1..Len(rows)}

\* sorted(...): the ascending list of a set of names, smallest first
RECURSIVE sorted(_)
sorted(S) ==
    IF S = {} THEN <<>>
    ELSE LET m == CHOOSE x \in S : \A y \in S \ {x} : StrLess(x, y)
         IN <<m>> \o sorted(S \ {m})

Range(q) == {q[i] : i \in 1..Len(q)}

default_selection_sorted(cl) ==
    SelectSeq(cl, LAMBDA c : c \in Range(default_clubs))
\* [club for club in default_clubs if club in club_list]
default_selection(cl) ==
    SelectSeq(default_clubs, LAMBDA c : c \in Range(cl))

\* ------------------------------------------------------------------------
\* The views
\* ------------------------------------------------------------------------
no_selection_never(selected) == FALSE
no_selection_always(selected) == TRUE
\* if not selected_clubs
no_selection(selected) == selected = {}

club_mask_not(row, selected) == row.club \notin selected
\* elo_data['club'].isin(selected_clubs), one row
club_mask(row, selected) == row.club \in selected

\* elo_data[elo_data['club'].isin(selected_clubs)]
subset_of(rows, selected) ==
    BoolIndex(rows, [i \in 1..Len(rows) |-> club_mask(rows[i], selected)])

\* the orders an ascending sort by date can leave a set of rows in
RECURSIVE Ascending(_)
Ascending(R) ==
    IF R = {} THEN {<<>>}
    ELSE LET first == {r \in R : \A o \in R : r.date <= o.date}
         IN UNION {{<<r>> \o t : t \in Ascending(R \ {r})} : r \in first}

\* sort_values('date'): kind defaults to 'quicksort', which is not stable, and
\* na_position to 'last'. The rows with a date come first in ascending date,
\* equal dates in an order the sort does not fix; the NaT rows follow in
\* their original order.
sort_values(rows) ==
    LET dated == {r \in Range(rows) : r.date # NaT}
        nat   == SelectSeq(rows, LAMBDA r : r.date = NaT)
    IN {p \o nat : p \in Ascending(dated)}

\* drop_duplicates('club', keep='last'): a row stays when no later row has its club
drop_duplicates(rows) ==
    BoolIndex(rows, [i \in 1..Len(rows) |->
        ~\E j \in (i + 1)..Len(rows) : rows[j].club = rows[i].club])

\* the values latest_ratings can take
latest_of(rows) == {drop_duplicates(s) : s \in sort_values(rows)}

\* st.sidebar.multiselect: a widget drawn for the first time, or with other
\* options than in the last run, takes the default; otherwise the user's choice
multiselect(fresh, chosen, options, shown, default) ==
    IF fresh \/ options # shown THEN Range(default) ELSE chosen

\* ------------------------------------------------------------------------
\* State
\* ------------------------------------------------------------------------
VARIABLES
    file,            \* what is at the path of the CSV
    cache,           \* the store of st.cache_data for load_data
    loaded_from,     \* the file as it was when load_data first returned
    changed,         \* the file was written since the last run
    exception,       \* the exception that ended the last run, or "none"
    error,           \* st.error is on the page
    elo_data,        \* the name elo_data after the last run
    selector,        \* the multiselect is on the page
    club_list,
    default,         \* the default handed to the multiselect
    selected_clubs,
    warning,         \* st.warning is on the page
    subset_data,
    latest_ratings,
    rendered,        \* what was handed to st.plotly_chart and st.dataframe
    branch           \* the branch of the script the last run ended in

vars == <<file, cache, loaded_from, changed, exception, error, elo_data, selector,
          club_list, default, selected_clubs, warning, subset_data,
          latest_ratings, rendered, branch>>

NotLoaded == [set |-> FALSE, file |-> Missing]

Blank ==
    /\ cache = EmptyCache
    /\ loaded_from = NotLoaded
    /\ changed = FALSE
    /\ exception = "none"
    /\ error = FALSE
    /\ elo_data = Absent
    /\ selector = FALSE
    /\ club_list = <<>>
    /\ default = <<>>
    /\ selected_clubs = {}
    /\ warning = FALSE
    /\ subset_data = Absent
    /\ latest_ratings = Absent
    /\ rendered = {}
    /\ branch = "start"

Init == file \in Files /\ Blank

InitReload == file \in ReloadFiles /\ Blank

\* nothing below the load is reached
NoPage ==
    /\ selector' = FALSE
    /\ club_list' = <<>>
    /\ default' = <<>>
    /\ selected_clubs' = {}
    /\ warning' = FALSE
    /\ subset_data' = Absent
    /\ latest_ratings' = Absent
    /\ rendered' = {}

\* One run of the script. fresh: the session has no widget state yet;
\* chosen: the clubs the user has picked in the widget.
Script(fresh, chosen) ==
    LET r == load_data(cache, file) IN
    /\ cache' = r.cache
    /\ loaded_from' = IF ~loaded_from.set /\ r.raised = "none"
                      THEN [set |-> TRUE, file |-> file] ELSE loaded_from
    /\ changed' = FALSE
    /\ exception' = r.raised
    /\ error' = r.error
    /\ UNCHANGED file
    /\ IF r.raised # "none"
       THEN elo_data' = Absent /\ branch' = "Raised" /\ NoPage
       ELSE
       /\ elo_data' = r.value
       /\ IF r.value.kind = "None"
          THEN branch' = "NoData" /\ NoPage
          ELSE
          LET cl  == sorted(unique_clubs(r.value.rows))
              d   == default_selection(cl)
              sel == multiselect(fresh, chosen, cl, club_list, d)
          IN
          /\ selector' = TRUE
          /\ club_list' = cl
          /\ default' = d
          /\ selected_clubs' = sel
          /\ IF no_selection(sel)
             THEN /\ warning' = TRUE
                  /\ subset_data' = Absent
                  /\ latest_ratings' = Absent
                  /\ rendered' = {}
                  /\ branch' = "EmptySelection"
             ELSE LET sub == subset_of(r.value.rows, sel) IN
                  /\ warning' = FALSE
                  /\ subset_data' = DF(sub)
                  /\ \E l \in latest_of(sub) : latest_ratings' = DF(l)
                  /\ rendered' = {"fig_scatter", "fig_bubble", "dataframe"}
                  /\ branch' = "HasSelection"

\* a browser opens the page: a run with no widget state
OpenSession == Script(TRUE, {})

\* the user changes the selection in the sidebar: a run with the new choice
ChangeSelection ==
    /\ selector
    /\ \E S \in SUBSET Range(club_list) :
        /\ S # selected_clubs
        /\ Script(FALSE, S)

\* the file at the path is replaced, created or removed
WriteFile ==
    /\ \E f \in ReloadFiles : f # file /\ file' = f
    /\ changed' = TRUE
    /\ UNCHANGED <<cache, loaded_from, exception, error, elo_data, selector,
                   club_list, default, selected_clubs, warning, subset_data,
                   latest_ratings, rendered, branch>>

Next == OpenSession \/ ChangeSelection

Spec == Init /\ [][Next]_vars

NextReload == OpenSession \/ ChangeSelection \/ WriteFile

SpecReload == InitReload /\ [][NextReload]_vars

\* ------------------------------------------------------------------------
\* Properties
\* ------------------------------------------------------------------------
AllViews == {"fig_scatter", "fig_bubble", "dataframe"}

\* the place of a record in a frame
Pos(q, x) == CHOOSE k \in 1..Len(q) : q[k] = x

\* the last run got past the load without an exception
Ran == branch \in {"NoData", "EmptySelection", "HasSelection"}

\* C1: the Dataset load_data returns holds only records whose country is one of
\* GER, ESP, ENG, FRA, ITA; a row of any other country is not in it.
C1_OnlyTopLeagues ==
    elo_data.kind = "df" =>
        \A i \in 1..Len(elo_data.rows) :
            elo_data.rows[i].country \in {"GER", "ESP", "ENG", "FRA", "ITA"}

\* a Dataset with records was loaded from a file that has a USA row
C1_Witness ==
    /\ elo_data.kind = "df"
    /\ elo_data.rows # <<>>
    /\ \E i \in 1..Len(file.rows) : file.rows[i].country = "USA"

\* C2: for a non-empty Selection the TimeSeries holds exactly the records of
\* the Dataset whose club is selected, each once, in the Dataset's order.
C2_TimeSeriesExact ==
    branch = "HasSelection" =>
        /\ subset_data.kind = "df"
        /\ Range(subset_data.rows) =
              {r \in Range(elo_data.rows) : r.club \in selected_clubs}
        /\ \A i, j \in 1..Len(subset_data.rows) :
              i < j => Pos(elo_data.rows, subset_data.rows[i])
                          < Pos(elo_data.rows, subset_data.rows[j])

\* two records are kept, in order, and a record between or around them is dropped
C2_Witness ==
    /\ branch = "HasSelection"
    /\ Len(subset_data.rows) = 2
    /\ Len(elo_data.rows) = 3
    /\ elo_data.rows[2].club \notin selected_clubs

\* a date is >= another; a missing date is behind every date
DateGE(a, b) == b = NaT \/ (a # NaT /\ a >= b)

\* C3: for a non-empty Selection the LatestSnapshot holds exactly one record
\* for each selected club, and its date is >= the date of every other record
\* of that club in the TimeSeries.
C3_LatestIsMax ==
    branch = "HasSelection" =>
        \A c \in selected_clubs :
            /\ Cardinality({i \in 1..Len(latest_ratings.rows) :
                              latest_ratings.rows[i].club = c}) = 1
            /\ \A i \in 1..Len(latest_ratings.rows) :
                  latest_ratings.rows[i].club = c =>
                      \A r \in Range(subset_data.rows) :
                          (r.club = c /\ r # latest_ratings.rows[i]) =>
                              DateGE(latest_ratings.rows[i].date, r.date)

\* C4: with the Dataset loaded and an empty Selection the run shows the
\* warning and makes no view: no TimeSeries, no LatestSnapshot, nothing is
\* handed to the renderer.
C4_EmptySelectionNoViews ==
    (elo_data.kind = "df" /\ selected_clubs = {}) =>
        /\ warning
        /\ subset_data = Absent
        /\ latest_ratings = Absent
        /\ rendered = {}

\* the user has emptied a selector whose default was not empty
C4_Witness ==
    /\ elo_data.kind = "df"
    /\ selected_clubs = {}
    /\ default # <<>>
    /\ branch = "EmptySelection"

\* C5: with no file at the path the load returns None with a visible error and
\* no exception; the app is in NoData with no selector, warning or view, and
\* every later run leaves it in NoData.
C5_NoDataTerminal ==
    /\ [](branch = "NoData" =>
            /\ elo_data = NoneVal
            /\ error
            /\ exception = "none"
            /\ ~selector
            /\ ~warning
            /\ subset_data = Absent
            /\ latest_ratings = Absent
            /\ rendered = {})
    /\ [][(~file.exists /\ ~cache.filled /\ ~changed') => branch' = "NoData"]_vars
    /\ [][branch = "NoData" => branch' = "NoData"]_vars

\* NoData after a run that found a loadable file at the path
C5_Witness ==
    /\ branch = "NoData"
    /\ ~changed
    /\ file.exists
    /\ load_data_body(file).value.kind = "df"
    /\ load_data_body(file).value.rows # <<>>

\* C6: the default of the selector is the clubs of the preferred list that are
\* in the Dataset's club list, in the preferred list's order.
C6_DefaultSelection ==
    selector =>
        /\ Range(default) = Range(default_clubs) \cap Range(club_list)
        /\ Range(default) \subseteq unique_clubs(elo_data.rows)
        /\ \A i, j \in 1..Len(default) :
              i < j => Pos(default_clubs, default[i]) < Pos(default_clubs, default[j])

\* both preferred clubs of the Dataset are offered, against the club list's order
C6_Witness ==
    /\ selector
    /\ club_list = <<"Bayern", "Mainz", "Man City">>
    /\ default = <<"Man City", "Bayern">>

\* C7: with the Dataset loaded, a selection change ends in EmptySelection
\* exactly when the new Selection is empty and in HasSelection with the views
\* made otherwise, whatever the Selection was before.
C7_StateFollowsSelection ==
    [][(selector /\ selected_clubs' # selected_clubs) =>
          /\ selected_clubs' = {} <=> branch' = "EmptySelection"
          /\ selected_clubs' # {} =>
                /\ branch' = "HasSelection"
                /\ ~warning'
                /\ subset_data'.kind = "df"
                /\ latest_ratings'.kind = "df"
                /\ rendered' = AllViews]_vars

\* Mainz is not a preferred club: a Dataset of Mainz alone starts with an empty
\* Selection, so this state is entered from EmptySelection only
C7_Witness ==
    /\ branch = "HasSelection"
    /\ club_list = <<"Mainz">>
    /\ selected_clubs = {"Mainz"}

C9_BadDateRecoverable ==
    (branch # "start" /\ ~changed /\ ~cache.filled
        /\ \E i \in 1..Len(file.rows) : ~Parses(file.rows[i].date)) =>
        /\ exception = "none"
        /\ \/ /\ elo_data.kind = "df"
              /\ \A i \in 1..Len(elo_data.rows) : elo_data.rows[i].date # NaT
           \/ elo_data = NoneVal /\ error

\* C10: after any loads with file changes in between, the Dataset in use is
\* the filtered content of the file as it is at the latest load.
C10_LatestContent ==
    (elo_data.kind = "df" /\ ~changed /\ load_data_body(file).value.kind = "df") =>
        elo_data = load_data_body(file).value

\* C10 as amended: the result in use is that of the file as it was when
\* load_data first returned; later contents of the file are not seen.
C10_FirstContent ==
    (Ran /\ loaded_from.set) =>
        /\ load_data_body(loaded_from.file).raised = "none"
        /\ elo_data = load_data_body(loaded_from.file).value

\* a run after the file was replaced by one that loads to another Dataset
C10_Witness ==
    /\ branch = "HasSelection"
    /\ ~changed
    /\ file # loaded_from.file
    /\ load_data_body(file).raised = "none"
    /\ load_data_body(file).value # elo_data

====
